---------------------------- MODULE Spec2Model ----------------------------
(***************************************************************************)
(* Two browser-side scripts:                                               *)
(*   admin-styles.js   : colour-scheme customizer (sanitizeCssUrl, the     *)
(*                       PP_Admin_Styles object and its colour helpers)    *)
(*   twae-migration.js : migration notice gated on the editor's            *)
(*                       unsaved-changes state                             *)
(* JavaScript strings are modelled as sequences of one-character strings,  *)
(* so that trim, toLowerCase, indexOf, the regular-expression replace and  *)
(* the URL parser work on characters as the code does.                     *)
(***************************************************************************)
EXTENDS Integers, Sequences, FiniteSets, TLC

VARIABLES
    \* ---- host environment of admin-styles.js
    urlApi,          \* typeof URL === 'function'
    baseProtocol,    \* protocol of window.location.origin
    isSafeCssUrl,    \* the optional global validator: "none", "accept", "reject"
    clock,           \* Date.now()
    \* ---- one call of sanitizeCssUrl(cssUrl, currentScheme, isSafe)
    szUrl, szScheme, szOut, szPc,
    \* ---- one call of lightenColor / darkenColor (color, percent)
    colIn, colPct, colOut, colPc,
    \* ---- PP_Admin_Styles and the DOM it works on
    currentScheme,   \* PP_Admin_Styles.currentScheme
    selected,        \* the .color-option elements carrying class 'selected'
    adminColorScheme,\* value of the hidden #admin_color_scheme field
    cssUrlOf,        \* value of each option's hidden .css_url input
    href,            \* href of the stylesheet link PP_Admin_Styles.$stylesheet
    previewStyle,    \* whether <style id="ppc-admin-area-preview"> exists
    editorShown,     \* whether .custom-scheme-editor is shown
    lastSel,         \* what the last handleSchemeSelection call did
    paletteTimer,    \* pending setTimeout(..., 50) callbacks of palette clicks
    loadedConsistent,\* the page was loaded with #admin_color_scheme naming the
                     \* scheme of the one option marked selected
    \* ---- twae-migration.js
    elementor,       \* the global elementor: "absent", "nosaver" (no saver) or "ready"
    isSaved,         \* elementor.saver.isSaved
    hasUnsavedChanges,
    btnKind,         \* the element #twae-run-migration: "button" or "other"
    btnDisabled,     \* the 'disabled' attribute of #twae-run-migration
    propDisabled,    \* the 'disabled' property of #twae-run-migration
    btnLabel,        \* text of #twae-run-migration
    resultHtml,      \* content of #twae-migration-result
    pending,         \* number of twae_run_migration requests in flight
    sent,            \* number of twae_run_migration requests sent so far
    reloadTimer,     \* pending setTimeout(reload, 3000) callbacks
    slideTimer,      \* pending setTimeout(slideUp, 6000) callbacks
    noticeShown,     \* .twae-migration-notice not slid up
    toasts,          \* number of warning toasts shown
    lastEvent,       \* the handler of the migration script that ran last
    gate             \* what happened since the last 'after:save' (see AfterSave)

envVars == <<urlApi, baseProtocol, isSafeCssUrl, clock>>
szVars  == <<szUrl, szScheme, szOut, szPc>>
colVars == <<colIn, colPct, colOut, colPc>>
uiVars  == <<currentScheme, selected, adminColorScheme, cssUrlOf, href,
             previewStyle, editorShown, lastSel, paletteTimer, loadedConsistent>>
migVars == <<elementor, isSaved, hasUnsavedChanges, btnKind, btnDisabled,
             propDisabled, btnLabel,
             resultHtml, pending, sent, reloadTimer, slideTimer, noticeShown,
             toasts, lastEvent, gate>>
vars    == <<envVars, szVars, colVars, uiVars, migVars>>

-----------------------------------------------------------------------------
(* JavaScript values and strings *)

Undefined == [t |-> "undefined", s |-> <<>>]
Null      == [t |-> "null", s |-> <<>>]
Str(s)    == [t |-> "string", s |-> s]

\* !v for the values used here: undefined, null and the empty string are falsy
Falsy(v) == v.t # "string" \/ v.s = <<>>

UpperChars == <<"A","B","C","D","E","F","G","H","I","J","K","L","M",
                "N","O","P","Q","R","S","T","U","V","W","X","Y","Z">>
LowerChars == <<"a","b","c","d","e","f","g","h","i","j","k","l","m",
                "n","o","p","q","r","s","t","u","v","w","x","y","z">>
DigitChars == <<"0","1","2","3","4","5","6","7","8","9">>

Range(f) == {f[i] : i \in DOMAIN f}

IsDigit(c) == c \in Range(DigitChars)
IsAlpha(c) == c \in Range(UpperChars) \cup Range(LowerChars)
WhiteSpace == {" ", "\t", "\n", "\r"}

LowerOf(c) ==
    IF c \in Range(UpperChars)
    THEN LowerChars[CHOOSE i \in DOMAIN UpperChars : UpperChars[i] = c]
    ELSE c

\* String.prototype.toLowerCase
toLowerCase(s) == [i \in DOMAIN s |-> LowerOf(s[i])]

\* String.prototype.trim
trim(s) ==
    LET keep == {i \in DOMAIN s : s[i] \notin WhiteSpace}
    IN  IF keep = {} THEN <<>>
        ELSE SubSeq(s, CHOOSE i \in keep : \A j \in keep : i <= j,
                       CHOOSE i \in keep : \A j \in keep : i >= j)

\* whether pat occurs in s at the 1-based position i
OccursAt(s, pat, i) ==
    /\ i >= 1
    /\ i + Len(pat) - 1 <= Len(s)
    /\ SubSeq(s, i, i + Len(pat) - 1) = pat

\* String.prototype.indexOf (0-based, -1 when absent)
indexOf(s, pat) ==
    LET hits == {i \in 1..(Len(s) + 1) : OccursAt(s, pat, i)}
    IN  IF hits = {} THEN -1
        ELSE (CHOOSE i \in hits : \A j \in hits : i <= j) - 1

\* decimal digits of a natural number, as Number.prototype.toString gives them
RECURSIVE ToDecimal(_)
ToDecimal(n) ==
    IF n < 10 THEN <<DigitChars[n + 1]>>
    ELSE Append(ToDecimal(n \div 10), DigitChars[(n % 10) + 1])

RECURSIVE FromDecimal(_)
FromDecimal(ds) ==
    IF ds = <<>> THEN 0
    ELSE 10 * FromDecimal(SubSeq(ds, 1, Len(ds) - 1))
         + ((CHOOSE i \in DOMAIN DigitChars : DigitChars[i] = ds[Len(ds)]) - 1)

-----------------------------------------------------------------------------
(* sanitizeCssUrl, admin-styles.js lines 19-70 *)

PUBLISHPRESS_CUSTOM == "publishpress-custom"

JAVASCRIPT_ == <<"j","a","v","a","s","c","r","i","p","t",":">>
DATA_       == <<"d","a","t","a",":">>
VBSCRIPT_   == <<"v","b","s","c","r","i","p","t",":">>
HTTP_       == <<"h","t","t","p",":">>
HTTPS_      == <<"h","t","t","p","s",":">>
VER_EQ      == <<"v","e","r","=">>

\* schemes the URL parser treats as special (they have a host and a default port)
SpecialSchemes == { <<"h","t","t","p">>, <<"h","t","t","p","s">>, <<"f","t","p">>,
                    <<"w","s">>, <<"w","s","s">>, <<"f","i","l","e">> }
FILE_SCHEME == <<"f","i","l","e">>

\* code points the URL parser refuses in a host
ForbiddenHostChars == {" ", "<", ">", "^", "|"}

SchemeChar(c) == IsAlpha(c) \/ IsDigit(c) \/ c \in {"+", "-", "."}

\* position of the ':' ending a leading scheme, 0 when the string has none
SchemeEnd(u) ==
    LET stops == {i \in 1..Len(u) : ~SchemeChar(u[i])}
        k     == IF stops = {} THEN 0 ELSE CHOOSE i \in stops : \A j \in stops : i <= j
    IN  IF u # <<>> /\ IsAlpha(u[1]) /\ k > 1 /\ u[k] = ":" THEN k ELSE 0

\* the part of u up to (not including) the first character of the set stop
UpTo(u, stop) ==
    LET hits == {i \in 1..Len(u) : u[i] \in stop}
    IN  IF hits = {} THEN u
        ELSE SubSeq(u, 1, (CHOOSE i \in hits : \A j \in hits : i <= j) - 1)

\* u without its leading characters of the set skip
SkipLeading(u, skip) ==
    LET keep == {i \in 1..Len(u) : u[i] \notin skip}
    IN  IF keep = {} THEN <<>>
        ELSE SubSeq(u, CHOOSE i \in keep : \A j \in keep : i <= j, Len(u))

\* whether the URL parser accepts the authority (credentials, host, port)
AuthorityOk(auth, emptyHostOk) ==
    LET ats   == {i \in 1..Len(auth) : auth[i] = "@"}
        hp    == IF ats = {} THEN auth
                 ELSE SubSeq(auth, (CHOOSE i \in ats : \A j \in ats : i >= j) + 1, Len(auth))
        cols  == {i \in 1..Len(hp) : hp[i] = ":"}
        c     == IF cols = {} THEN Len(hp) + 1
                 ELSE CHOOSE i \in cols : \A j \in cols : i <= j
        host  == SubSeq(hp, 1, c - 1)
        port  == SubSeq(hp, c + 1, Len(hp))
    IN  /\ (host # <<>> \/ (emptyHostOk /\ port = <<>> /\ ats = {}))
        /\ \A i \in 1..Len(host) : host[i] \notin ForbiddenHostChars
        /\ \A i \in 1..Len(port) : IsDigit(port[i])
        /\ FromDecimal(port) <= 65535

\* the parsed URL: whether parsing succeeded (no TypeError), and the protocol
Parsed(ok, scheme) == [ok |-> ok, protocol |-> Append(scheme, ":")]

Slashes == {"/", "\\"}
StartsWithTwo(s, cs) == Len(s) >= 2 /\ s[1] \in cs /\ s[2] \in cs

\* a reference without a scheme, resolved against the base (http or https)
ParseRelative(u, base) ==
    IF StartsWithTwo(u, Slashes)
    THEN Parsed(AuthorityOk(UpTo(SubSeq(u, 3, Len(u)), {"/", "\\", "?", "#"}), FALSE), base)
    ELSE Parsed(TRUE, base)

\* a URL with a scheme; rest is what follows the ':'
ParseAbsolute(scheme, rest, base) ==
    IF scheme \notin SpecialSchemes
    THEN \* opaque path, or an authority with an opaque host after "//"
         IF StartsWithTwo(rest, {"/"})
         THEN Parsed(AuthorityOk(UpTo(SubSeq(rest, 3, Len(rest)), {"/", "?", "#"}), TRUE),
                     scheme)
         ELSE Parsed(TRUE, scheme)
    ELSE IF scheme = FILE_SCHEME
    THEN IF StartsWithTwo(rest, Slashes)
         THEN Parsed(AuthorityOk(UpTo(SubSeq(rest, 3, Len(rest)), {"/", "\\", "?", "#"}),
                                 TRUE), scheme)
         ELSE Parsed(TRUE, scheme)
    ELSE IF scheme = base /\ ~StartsWithTwo(rest, Slashes)
    THEN \* the base's own scheme without "//": a relative reference
         Parsed(TRUE, scheme)
    ELSE Parsed(AuthorityOk(UpTo(SkipLeading(rest, Slashes), {"/", "\\", "?", "#"}), FALSE),
                scheme)

ParseFrom(u, k, base) ==
    IF k = 0 THEN ParseRelative(u, base)
    ELSE ParseAbsolute(toLowerCase(SubSeq(u, 1, k - 1)), SubSeq(u, k + 1, Len(u)), base)

ParseStripped(u) ==
    ParseFrom(u, SchemeEnd(u), SubSeq(baseProtocol, 1, Len(baseProtocol) - 1))

\* new URL(input, window.location.origin). The parser first drops tabs and
\* newlines, reads a scheme if the input starts with one, and otherwise resolves
\* the input against the base, whose protocol the result then has.
ParseUrl(input) ==
    ParseStripped(SelectSeq(input, LAMBDA ch : ch \notin {"\t", "\n", "\r"}))

\* line 47: protocol !== 'http:' && protocol !== 'https:'
NotHttp(protocol) == protocol # HTTP_ /\ protocol # HTTPS_

\* a block list instead of the allow list
ProtocolRejected_BlockList(trimmed) ==
    /\ urlApi
    /\ \E parsed \in {ParseUrl(trimmed)} :
          parsed.ok /\ toLowerCase(parsed.protocol) = Append(FILE_SCHEME, ":")

\* || in place of && between the two comparisons
ProtocolRejected_Or(trimmed) ==
    /\ urlApi
    /\ \E parsed \in {ParseUrl(trimmed)} :
          /\ parsed.ok
          /\ \E protocol \in {toLowerCase(parsed.protocol)} :
                protocol # HTTP_ \/ protocol # HTTPS_

\* a catch block that returns null
ProtocolRejected_FailClosed(trimmed) ==
    /\ urlApi
    /\ \E parsed \in {ParseUrl(trimmed)} :
          ~parsed.ok \/ NotHttp(toLowerCase(parsed.protocol))

\* lines 43-53: the protocol check, skipped without the URL API and when new URL throws
ProtocolRejected(trimmed) ==
    /\ urlApi
    /\ \E parsed \in {ParseUrl(trimmed)} :
          parsed.ok /\ NotHttp(toLowerCase(parsed.protocol))

\* first element of a non-empty set of numbers, 0 for the empty set
MinOr0(S) == IF S = {} THEN 0 ELSE CHOOSE i \in S : \A j \in S : i <= j

\* where the first match of /([?&])ver=\d+(&?)/ starts in s, 0 when there is none
VerMatchStart(s) ==
    MinOr0({i \in 1..Len(s) :
               /\ s[i] \in {"?", "&"}
               /\ OccursAt(s, VER_EQ, i + 1)
               /\ i + 5 <= Len(s)
               /\ IsDigit(s[i + 5])})

\* where the digits matched by \d+ end, for a match that starts at from
VerDigitsEnd(s, from) ==
    IF \A j \in (from + 5)..Len(s) : IsDigit(s[j]) THEN Len(s)
    ELSE MinOr0({j \in (from + 5)..Len(s) : ~IsDigit(s[j])}) - 1

\* the replacement of the match from..last, (&?) taking the '&' that follows it
ReplaceVer(s, from, last) ==
    IF last + 1 <= Len(s) /\ s[last + 1] = "&"
    THEN SubSeq(s, 1, from - 1) \o <<s[from]>> \o SubSeq(s, last + 2, Len(s))
    ELSE SubSeq(s, 1, from - 1) \o SubSeq(s, last + 1, Len(s))

RemoveVerAt(s, from) == IF from = 0 THEN s ELSE ReplaceVer(s, from, VerDigitsEnd(s, from))

\* the replace left out
RemoveVer_Identity(s) == s

\* lines 59-61: trimmed.replace(/([?&])ver=\d+(&?)/, (m, p1, p2) => p2 ? p1 : '')
RemoveVer(s) == RemoveVerAt(s, VerMatchStart(s))

\* lines 62-66: append the timestamp
AppendVer(s, now) ==
    IF indexOf(s, <<"?">>) = -1
    THEN s \o <<"?">> \o VER_EQ \o ToDecimal(now)
    ELSE s \o <<"&">> \o VER_EQ \o ToDecimal(now)

\* lines 55-67
CacheBust(trimmed, scheme) ==
    IF scheme = PUBLISHPRESS_CUSTOM THEN AppendVer(RemoveVer(trimmed), clock) ELSE trimmed

\* line 30: typeof isSafe === 'function' && !isSafe(trimmed)
ValidatorRejects(isSafe, trimmed) == isSafe = "reject"

\* the comparison made on the string as given, not lower-cased
DangerousScheme_CaseSensitive(trimmed) ==
    \/ indexOf(trimmed, JAVASCRIPT_) = 0
    \/ indexOf(trimmed, DATA_) = 0
    \/ indexOf(trimmed, VBSCRIPT_) = 0

\* lines 35-38
DangerousScheme(trimmed) ==
    \E lower \in {toLowerCase(trimmed)} :
        \/ indexOf(lower, JAVASCRIPT_) = 0
        \/ indexOf(lower, DATA_) = 0
        \/ indexOf(lower, VBSCRIPT_) = 0

\* lines 29-69, for the trimmed string
SanitizeTrimmed(trimmed, scheme, isSafe) ==
    IF trimmed = <<>> THEN Null
    ELSE IF ValidatorRejects(isSafe, trimmed) THEN Null
    ELSE IF DangerousScheme(trimmed) THEN Null
    ELSE IF ProtocolRejected(trimmed) THEN Null
    ELSE Str(CacheBust(trimmed, scheme))

sanitizeCssUrl(cssUrl, scheme, isSafe) ==
    IF Falsy(cssUrl) THEN Null ELSE SanitizeTrimmed(trim(cssUrl.s), scheme, isSafe)

-----------------------------------------------------------------------------
(* Inputs of the sanitizer: strings built as                               *)
(*   [padding] [scheme] location [?query] [#fragment] [padding]            *)

\* largest number of parameters in a generated query string
MaxParams == 2
\* Date.now() when the page is loaded, the time between two events, and the
\* largest value of Date.now() (all in milliseconds)
StartClock == 500
TickStep == 500
MaxClock == 1000

SchemePrefixes ==
    { <<>>, HTTP_, <<"H","T","T","P","S",":">>, JAVASCRIPT_,
      <<"J","a","v","a","S","c","r","i","p","t",":">>,
      <<"j","a","v","a","\t","s","c","r","i","p","t",":">>,
      DATA_, VBSCRIPT_, <<"f","t","p",":">>, <<"f","i","l","e",":">>,
      <<"b","l","o","b",":">> }

Locations ==
    { <<"/","/","h","/","a",".","c","s","s">>,          \* //h/a.css
      <<"/","/","h",":","8","0","/","a",".","c","s","s">>,  \* //h:80/a.css
      <<"/","/","h",":","b","/","a",".","c","s","s">>,  \* //h:b/a.css  (port is no number)
      <<"/","/","h"," ","x","/","a",".","c","s","s">>,  \* //h x/a.css  (space in the host)
      <<"/","a",".","c","s","s">> }                     \* /a.css

VerParam   == <<"v","e","r","=","1","2">>
OtherParam == <<"a","=","b">>

RECURSIVE JoinParams(_)
JoinParams(ps) ==
    IF ps = <<>> THEN <<>>
    ELSE IF Len(ps) = 1 THEN ps[1]
    ELSE ps[1] \o <<"&">> \o JoinParams(Tail(ps))

ParamLists == UNION {[1..n -> {VerParam, OtherParam}] : n \in 0..MaxParams}

Queries == {IF ps = <<>> THEN <<>> ELSE <<"?">> \o JoinParams(ps) : ps \in ParamLists}

Tails == Queries \cup { <<"#","f">>, <<"?">> \o VerParam \o <<"#","f">> }

Pad(s, padded) == IF padded THEN <<" ">> \o s \o <<"\n">> ELSE s

InputStrings ==
    {Pad(p \o l \o q, padded) :
        p \in SchemePrefixes, l \in Locations, q \in Tails, padded \in BOOLEAN}

\* what $option.children('.css_url').val() can give: undefined when the element is
\* missing, else a string
InputValues == {Undefined, Str(<<>>), Str(<<" ">>)} \cup {Str(s) : s \in InputStrings}

SchemeNames == {PUBLISHPRESS_CUSTOM, "fresh", "light"}

EnvInit ==
    /\ urlApi \in BOOLEAN
    /\ baseProtocol \in {HTTP_, HTTPS_}
    /\ isSafeCssUrl \in {"none", "accept", "reject"}
    /\ clock = StartClock

SzIdle ==
    /\ szUrl = Undefined /\ szScheme = "fresh" /\ szOut = Null /\ szPc = "idle"

ColIdle ==
    /\ colIn = <<>> /\ colPct = 0 /\ colOut = <<>> /\ colPc = "idle"

UiIdle ==
    /\ currentScheme = "fresh" /\ selected = {} /\ adminColorScheme = "fresh"
    /\ cssUrlOf = <<>> /\ href = Undefined /\ previewStyle = FALSE
    /\ editorShown = FALSE /\ lastSel = <<>>
    /\ paletteTimer = 0 /\ loadedConsistent = FALSE

MigIdle ==
    /\ elementor = "absent" /\ isSaved = TRUE /\ hasUnsavedChanges = FALSE
    /\ btnKind = "button" /\ btnDisabled = FALSE /\ propDisabled = FALSE
    /\ btnLabel = "Run Migration" /\ resultHtml = "empty"
    /\ pending = 0 /\ sent = 0 /\ reloadTimer = 0 /\ slideTimer = 0
    /\ noticeShown = TRUE /\ toasts = 0 /\ lastEvent = "none" /\ gate = "none"

InitSanitize ==
    /\ EnvInit
    /\ szUrl \in InputValues
    /\ szScheme \in {PUBLISHPRESS_CUSTOM, "fresh"}
    /\ szOut = Null
    /\ szPc = "call"
    /\ ColIdle /\ UiIdle /\ MigIdle

\* one call sanitizeCssUrl(cssUrl, currentScheme, isSafe)
Sanitize ==
    /\ szPc = "call"
    /\ szOut' = sanitizeCssUrl(szUrl, szScheme, isSafeCssUrl)
    /\ szPc' = "done"
    /\ UNCHANGED <<szUrl, szScheme, envVars, colVars, uiVars, migVars>>

NextSanitize == Sanitize

SpecSanitize == InitSanitize /\ [][NextSanitize]_vars

-----------------------------------------------------------------------------
(* Claims about sanitizeCssUrl, checked under SpecSanitize *)

BeginsWith(s, p) == Len(s) >= Len(p) /\ SubSeq(s, 1, Len(p)) = p

\* the input as the claims describe it: trimmed, and trimmed and lower-cased
SzTrimmed == trim(szUrl.s)
SzLower   == toLowerCase(SzTrimmed)
SzCalled  == szPc = "done" /\ szUrl.t = "string"

SzDangerous ==
    \/ BeginsWith(SzLower, JAVASCRIPT_)
    \/ BeginsWith(SzLower, DATA_)
    \/ BeginsWith(SzLower, VBSCRIPT_)

\* C1: an input that, trimmed and lower-cased, begins with javascript:, data: or
\* vbscript: gives null, whatever the scheme and the validator
C1_DangerousSchemesRejected ==
    (SzCalled /\ SzDangerous) => szOut = Null

\* a mixed-case, padded javascript: URL went through a call without the URL API
\* and with an accepting validator
C1_Witness ==
    /\ SzCalled
    /\ BeginsWith(SzLower, JAVASCRIPT_) /\ ~BeginsWith(SzTrimmed, JAVASCRIPT_)
    /\ szUrl.s # SzTrimmed
    /\ ~urlApi /\ isSafeCssUrl = "accept"
    /\ szScheme = PUBLISHPRESS_CUSTOM
    /\ szOut = Null

\* the input parses as an absolute URL (it carries its own scheme) whose scheme is
\* neither http nor https
SzForeignAbsolute ==
    LET u == SelectSeq(SzTrimmed, LAMBDA ch : ch \notin {"\t", "\n", "\r"})
        scheme == toLowerCase(SubSeq(u, 1, SchemeEnd(u) - 1))
    IN  /\ SchemeEnd(u) # 0
        /\ ParseUrl(SzTrimmed).ok
        /\ scheme \notin { <<"h","t","t","p">>, <<"h","t","t","p","s">> }

\* C2 as stated: every absolute URL with a scheme other than http and https gives null
C2_Original ==
    (SzCalled /\ SzForeignAbsolute) => szOut = Null

\* C2 amended: ... provided the URL API is available (typeof URL === 'function')
C2_ForeignSchemesRejected ==
    (SzCalled /\ SzForeignAbsolute /\ urlApi) => szOut = Null

\* an ftp: URL, which only the protocol check of lines 43-50 can reject
C2_Witness ==
    /\ SzCalled /\ SzForeignAbsolute /\ urlApi
    /\ BeginsWith(SzLower, <<"f","t","p",":">>)
    /\ isSafeCssUrl = "none"
    /\ szOut = Null

\* a well-formed http:// or https:// URL
SzWellFormedHttp ==
    /\ \/ BeginsWith(SzLower, HTTP_ \o <<"/","/">>)
       \/ BeginsWith(SzLower, HTTPS_ \o <<"/","/">>)
    /\ ParseUrl(SzTrimmed).ok

\* C3: a well-formed http(s) URL that the validator (if any) accepts gives a
\* non-null result, which is the trimmed input when the scheme is not the custom one
C3_HttpAccepted ==
    (SzCalled /\ SzWellFormedHttp /\ isSafeCssUrl # "reject")
        => /\ szOut.t = "string"
           /\ szOut.s # <<>>
           /\ szScheme # PUBLISHPRESS_CUSTOM => szOut = Str(SzTrimmed)

\* a padded https URL with a query is returned trimmed and otherwise untouched
C3_Witness ==
    /\ SzCalled /\ SzWellFormedHttp /\ isSafeCssUrl = "accept" /\ urlApi
    /\ szScheme # PUBLISHPRESS_CUSTOM
    /\ szUrl.s # SzTrimmed
    /\ indexOf(SzTrimmed, VER_EQ) # -1
    /\ szOut = Str(SzTrimmed)

\* the query string of s: after the first '?', up to the first '#'
QueryOf(s) ==
    LET noFrag == UpTo(s, {"#"})
        q      == indexOf(noFrag, <<"?">>)
    IN  IF q = -1 THEN <<>> ELSE SubSeq(noFrag, q + 2, Len(noFrag))

\* number of parameters named ver in the query string of s
VerParamCount(s) ==
    LET q == QueryOf(s)
    IN  Cardinality({i \in 1..Len(q) :
                        /\ OccursAt(q, VER_EQ, i)
                        /\ (i = 1 \/ q[i - 1] = "&")})

SzCustomAccepted ==
    SzCalled /\ szScheme = PUBLISHPRESS_CUSTOM /\ szOut.t = "string"

\* C4 as stated: for the custom scheme every returned URL carries ver exactly once
C4_Original ==
    SzCustomAccepted => VerParamCount(szOut.s) = 1

\* where '?ver=' or '&ver=' occurs in s
VerMarks(s) == {i \in 1..Len(s) : s[i] \in {"?", "&"} /\ OccursAt(s, VER_EQ, i + 1)}

\* the text that follows the mark at i is digits, up to a '&' or the end of s
CompleteVerParam(s, i) ==
    \E j \in (i + 5)..Len(s) :
        /\ \A m \in (i + 5)..j : IsDigit(s[m])
        /\ (j = Len(s) \/ s[j + 1] = "&")

\* C4 amended: ... when the input has no fragment and '?ver=' or '&ver=' occurs in
\* it at most once, as a complete ver=<digits> parameter
C4_VerOnce ==
    (/\ SzCustomAccepted
     /\ indexOf(SzTrimmed, <<"#">>) = -1
     /\ Cardinality(VerMarks(SzTrimmed)) <= 1
     /\ \A i \in VerMarks(SzTrimmed) : CompleteVerParam(SzTrimmed, i))
        => /\ VerParamCount(szOut.s) = 1
           /\ OccursAt(szOut.s, VER_EQ \o ToDecimal(clock),
                       Len(szOut.s) - Len(VER_EQ \o ToDecimal(clock)) + 1)

\* an input whose ver=12 parameter is followed by another parameter is returned
\* with the old ver removed and the new one at the end
C4_Witness ==
    /\ SzCustomAccepted
    /\ indexOf(SzTrimmed, <<"#">>) = -1
    /\ indexOf(SzTrimmed, <<"?">> \o VerParam \o <<"&">>) # -1
    /\ VerParamCount(SzTrimmed) = 1
    /\ VerParamCount(szOut.s) = 1

-----------------------------------------------------------------------------
(* PP_Admin_Styles: the colour options, the hidden field, the stylesheet link *)

\* the .color-option elements, named by the value of their radio input; the one
\* of the custom scheme carries the class ppc-custom-scheme
Options == SchemeNames
CustomOption == PUBLISHPRESS_CUSTOM
SchemeOf(o) == o

\* values of the hidden .css_url inputs (ppCapabilitiesAdminStyles.colorSchemes[..].url)
GoodVerUrl == Str(HTTP_ \o <<"/","/","h","/","a",".","c","s","s","?">> \o VerParam)
BadPortUrl == Str(<<" ">> \o HTTP_ \o <<"/","/","h",":","b","/","a",".","c","s","s">>)
JsUrl      == Str(<<"J","a","v","a","S","c","r","i","p","t",":","/","/","h"," ","x">>)
UiUrls     == {GoodVerUrl, BadPortUrl, JsUrl}

\* ppCapabilitiesAdminStyles.moduleUrl
ModuleUrl == <<"/","m","/">>
\* 'admin-styles-css.php?ppc_custom_scheme=1&ver='
CustomCssPath ==
    <<"a","d","m","i","n","-","s","t","y","l","e","s","-","c","s","s",
      ".","p","h","p","?","p","p","c","_","c","u","s","t","o","m","_",
      "s","c","h","e","m","e","=","1","&","v","e","r","=">>

\* href of the stylesheet link when the page is loaded
InitialHref == Str(<<"/","c","o","l","o","r","s",".","c","s","s">>)

\* lastSel when the handler that ran last was not handleSchemeSelection
NoSel == [ran |-> FALSE, early |-> FALSE, option |-> "none", newUrl |-> Null,
          hrefBefore |-> Undefined, now |-> 0]

\* the .css_url values the page can be loaded with
CssUrlTables ==
    {f \in [Options -> UiUrls \cup {Undefined}] :
        /\ f[CustomOption] \in {GoodVerUrl, BadPortUrl}
        /\ f["fresh"] \in {GoodVerUrl, BadPortUrl}
        /\ f["light"] \in {JsUrl, Undefined}}

\* init (lines 80-98): currentScheme is read from the hidden field; the preview
\* style element is not created (updateCustomSchemePreview does not create it)
Init ==
    /\ urlApi \in BOOLEAN
    /\ baseProtocol = HTTPS_
    /\ isSafeCssUrl \in {"none", "accept", "reject"}
    /\ clock = StartClock
    /\ selected \in {S \in SUBSET Options : Cardinality(S) <= 1}
    /\ adminColorScheme \in SchemeNames
    /\ currentScheme = adminColorScheme
    /\ cssUrlOf \in CssUrlTables
    /\ href = InitialHref
    /\ previewStyle = FALSE
    /\ editorShown \in BOOLEAN
    /\ lastSel = NoSel
    /\ paletteTimer = 0
    /\ loadedConsistent = (\E o \in Options : selected = {o} /\ SchemeOf(o) = adminColorScheme)
    /\ SzIdle /\ ColIdle /\ MigIdle

\* line 407: the handler runs with `this` bound to the clicked element, which has
\* no currentScheme property, so this.currentScheme is undefined
ThisCurrentScheme == "undefined"

\* line 407: typeof isSafeCssUrl === 'function' ? isSafeCssUrl : null
IsSafeArg == isSafeCssUrl

\* $('.color-option').removeClass('selected') left out
NewSelected_NoRemove(o) == selected \cup {o}

\* lines 389-391
NewSelected(o) == (selected \ Options) \cup {o}

\* the href assigned without the test of newUrl
NewHref_Always(newUrl) == newUrl

\* lines 408-410: the href, given what sanitizeCssUrl returned
NewHref(newUrl) == IF ~Falsy(newUrl) THEN newUrl ELSE href

\* the state as a handler that changes nothing leaves it
Untouched(sel) ==
    [selected |-> selected, adminColorScheme |-> adminColorScheme,
     previewStyle |-> previewStyle, href |-> href, editorShown |-> editorShown,
     currentScheme |-> currentScheme, lastSel |-> sel]

\* the handler without its last assignment (line 421)
SelectWith_StaleScheme(o, newUrl) ==
    [selected |-> NewSelected(o),
     adminColorScheme |-> SchemeOf(o),
     previewStyle |-> (SchemeOf(o) = PUBLISHPRESS_CUSTOM),
     href |-> NewHref(newUrl),
     editorShown |-> (SchemeOf(o) = PUBLISHPRESS_CUSTOM),
     currentScheme |-> currentScheme,
     lastSel |-> [ran |-> TRUE, early |-> FALSE, option |-> o, newUrl |-> newUrl,
                  hrefBefore |-> href, now |-> clock]]

\* lines 388-421, given what sanitizeCssUrl returned for the option's URL
SelectWith(o, newUrl) ==
    [selected |-> NewSelected(o),
     adminColorScheme |-> SchemeOf(o),
     previewStyle |-> (SchemeOf(o) = PUBLISHPRESS_CUSTOM),
     href |-> NewHref(newUrl),
     editorShown |-> (SchemeOf(o) = PUBLISHPRESS_CUSTOM),
     currentScheme |-> SchemeOf(o),
     lastSel |-> [ran |-> TRUE, early |-> FALSE, option |-> o, newUrl |-> newUrl,
                  hrefBefore |-> href, now |-> clock]]

\* handleSchemeSelection (lines 379-422) for the option o, as the values it
\* leaves in the state
SelectionEffect(o) ==
    IF o \in selected
    THEN Untouched([NoSel EXCEPT !.ran = TRUE, !.early = TRUE, !.option = o,
                                 !.hrefBefore = href, !.now = clock])
    ELSE SelectWith(o, sanitizeCssUrl(cssUrlOf[o], ThisCurrentScheme, IsSafeArg))

\* a click on the colour option o
handleSchemeSelection(o) ==
    \E e \in {SelectionEffect(o)} :
        /\ selected' = e.selected
        /\ adminColorScheme' = e.adminColorScheme
        /\ previewStyle' = e.previewStyle
        /\ href' = e.href
        /\ editorShown' = e.editorShown
        /\ currentScheme' = e.currentScheme
        /\ lastSel' = e.lastSel
        /\ UNCHANGED <<cssUrlOf, paletteTimer, loadedConsistent,
                       envVars, szVars, colVars, migVars>>

\* a click on the edit icon of the custom scheme (lines 882-898): the click it
\* triggers on the custom option runs handleSchemeSelection before it goes on
handleEditCustomScheme ==
    \E e \in {IF currentScheme # PUBLISHPRESS_CUSTOM
              THEN SelectionEffect(CustomOption)
              ELSE Untouched(NoSel)} :
        /\ selected' = e.selected
        /\ adminColorScheme' = e.adminColorScheme
        /\ previewStyle' = e.previewStyle
        /\ href' = e.href
        /\ editorShown' = TRUE
        /\ currentScheme' = e.currentScheme
        /\ lastSel' = e.lastSel
        /\ UNCHANGED <<cssUrlOf, paletteTimer, loadedConsistent,
                       envVars, szVars, colVars, migVars>>

\* updateCustomSchemeUrl (lines 570-590): the URL it builds
CustomSchemeUrl == Str(ModuleUrl \o CustomCssPath \o ToDecimal(clock \div 1000))

\* a change event of a .custom-scheme-color input (lines 595-609):
\* applyAdminAreaPreview creates the preview style element, and with the custom
\* scheme current updateCustomSchemeUrl rewrites the option's URL and the href
handleCustomColorChange ==
    /\ previewStyle' = TRUE
    /\ IF currentScheme = PUBLISHPRESS_CUSTOM
       THEN /\ cssUrlOf' = [cssUrlOf EXCEPT ![CustomOption] = CustomSchemeUrl]
            /\ href' = CustomSchemeUrl
       ELSE UNCHANGED <<cssUrlOf, href>>
    /\ lastSel' = NoSel
    /\ UNCHANGED <<selected, adminColorScheme, editorShown, currentScheme,
                   paletteTimer, loadedConsistent, envVars, szVars, colVars, migVars>>

\* most 50 ms timers pending at once
MaxPaletteTimers == 1

\* the 'change' callback of a colour picker (lines 209-227) whose input carries
\* data-preview: the same preview and URL update as handleCustomColorChange
PickerChange ==
    /\ previewStyle' = TRUE
    /\ IF currentScheme = PUBLISHPRESS_CUSTOM
       THEN /\ cssUrlOf' = [cssUrlOf EXCEPT ![CustomOption] = CustomSchemeUrl]
            /\ href' = CustomSchemeUrl
       ELSE UNCHANGED <<cssUrlOf, href>>
    /\ lastSel' = NoSel
    /\ UNCHANGED <<selected, adminColorScheme, editorShown, currentScheme,
                   paletteTimer, loadedConsistent, envVars, szVars, colVars, migVars>>

\* the 'clear' callback of a colour picker (lines 229-239) whose input carries
\* data-preview: the preview style element is removed
PickerClear ==
    /\ previewStyle' = FALSE
    /\ lastSel' = NoSel
    /\ UNCHANGED <<selected, adminColorScheme, editorShown, currentScheme, cssUrlOf,
                   href, paletteTimer, loadedConsistent,
                   envVars, szVars, colVars, migVars>>

\* a click on an .iris-palette swatch (lines 517-550) whose picker input carries
\* data-preview: the 'change' event it triggers on the input (line 534) runs
\* handleCustomColorChange when the input is a .custom-scheme-color one, and the
\* 50 ms timer is set
PaletteClick ==
    /\ paletteTimer < MaxPaletteTimers
    /\ paletteTimer' = paletteTimer + 1
    /\ \E customInput \in BOOLEAN :
        IF customInput
        THEN /\ previewStyle' = TRUE
             /\ IF currentScheme = PUBLISHPRESS_CUSTOM
                THEN /\ cssUrlOf' = [cssUrlOf EXCEPT ![CustomOption] = CustomSchemeUrl]
                     /\ href' = CustomSchemeUrl
                ELSE UNCHANGED <<cssUrlOf, href>>
        ELSE UNCHANGED <<previewStyle, cssUrlOf, href>>
    /\ lastSel' = NoSel
    /\ UNCHANGED <<selected, adminColorScheme, editorShown, currentScheme,
                   loadedConsistent, envVars, szVars, colVars, migVars>>

\* the 50 ms timer of a palette click (lines 541-544): applyAdminAreaPreview
PaletteTimerFires ==
    /\ paletteTimer > 0
    /\ paletteTimer' = paletteTimer - 1
    /\ previewStyle' = TRUE
    /\ lastSel' = NoSel
    /\ UNCHANGED <<selected, adminColorScheme, editorShown, currentScheme, cssUrlOf,
                   href, loadedConsistent, envVars, szVars, colVars, migVars>>

\* time passes between two events
Tick ==
    /\ clock + TickStep <= MaxClock
    /\ clock' = clock + TickStep
    /\ UNCHANGED <<urlApi, baseProtocol, isSafeCssUrl, szVars, colVars, uiVars, migVars>>

Next ==
    \/ \E o \in Options : handleSchemeSelection(o)
    \/ handleEditCustomScheme
    \/ handleCustomColorChange
    \/ PickerChange
    \/ PickerClear
    \/ PaletteClick
    \/ PaletteTimerFires
    \/ Tick

Spec == Init /\ [][Next]_vars

-----------------------------------------------------------------------------
(* Claims about the colour-scheme selection, checked under Spec *)

\* the handler that ran last was handleSchemeSelection, past its early return
SelRan == lastSel.ran /\ ~lastSel.early

\* the .css_url value of the option clicked last
SelCssUrl == cssUrlOf[lastSel.option]

\* a non-empty string that new URL(...) cannot parse
Malformed(v) ==
    /\ v.t = "string"
    /\ trim(v.s) # <<>>
    /\ ~ParseUrl(trim(v.s)).ok

EndsWith(s, p) == OccursAt(s, p, Len(s) - Len(p) + 1)

\* C5 as stated: a malformed CSS URL gives null, and selecting its option leaves
\* the href as it was
C5_Original ==
    (SelRan /\ Malformed(SelCssUrl))
        => (lastSel.newUrl = Null /\ href = lastSel.hrefBefore)

\* C5 amended: a malformed CSS URL is dropped only when the validator rejects it or
\* it begins with javascript:, data: or vbscript: ; otherwise the failed parse is
\* ignored, the trimmed string is returned and selecting the option sets the href to it
C5_MalformedFallThrough ==
    (SelRan /\ Malformed(SelCssUrl))
        => IF \/ isSafeCssUrl = "reject"
              \/ \E p \in {JAVASCRIPT_, DATA_, VBSCRIPT_} :
                    BeginsWith(toLowerCase(trim(SelCssUrl.s)), p)
           THEN lastSel.newUrl = Null /\ href = lastSel.hrefBefore
           ELSE lastSel.newUrl = Str(trim(SelCssUrl.s)) /\ href = lastSel.newUrl

\* with the URL API present, the option whose URL has a port that is no number was
\* selected and the href became that URL
C5_Witness ==
    /\ SelRan /\ Malformed(SelCssUrl) /\ urlApi
    /\ SelCssUrl = BadPortUrl
    /\ href = Str(trim(BadPortUrl.s))
    /\ href # lastSel.hrefBefore

\* C6 as stated: selecting the custom option with an accepted URL assigns an href
\* that carries the ver=<timestamp> added by sanitizeCssUrl; for any other scheme
\* the href is assigned without an added timestamp
C6_Original ==
    (SelRan /\ ~Falsy(lastSel.newUrl))
        => /\ href = lastSel.newUrl
           /\ IF SchemeOf(lastSel.option) = PUBLISHPRESS_CUSTOM
              THEN EndsWith(href.s, VER_EQ \o ToDecimal(lastSel.now))
              ELSE href = Str(trim(SelCssUrl.s))

\* C7: at most one colour option carries the class 'selected'
C7_AtMostOneSelected == Cardinality(selected) <= 1

\* a second selection has run: the option clicked is the only selected one
C7_Witness ==
    /\ SelRan
    /\ selected = {lastSel.option}
    /\ lastSel.hrefBefore # InitialHref
    /\ currentScheme = SchemeOf(lastSel.option)

\* C13: when sanitizeCssUrl returns null for the clicked option's CSS URL,
\* handleSchemeSelection leaves the href unchanged, and still marks the option
\* selected and sets #admin_color_scheme and currentScheme to its scheme
C13_NullUrlKeepsHref ==
    (SelRan /\ lastSel.newUrl = Null)
        => /\ href = lastSel.hrefBefore
           /\ lastSel.option \in selected
           /\ adminColorScheme = SchemeOf(lastSel.option)
           /\ currentScheme = SchemeOf(lastSel.option)

\* the option whose URL begins with 'JavaScript:' was selected after another
\* selection had changed the href, which stayed as that selection left it
C13_Witness ==
    /\ SelRan /\ lastSel.newUrl = Null
    /\ SelCssUrl = JsUrl /\ isSafeCssUrl = "none"
    /\ href = lastSel.hrefBefore /\ href # InitialHref
    /\ selected = {lastSel.option}
    /\ currentScheme = SchemeOf(lastSel.option)

\* currentScheme, the hidden field and the one selected option name one scheme
SchemeAgreement ==
    /\ currentScheme = adminColorScheme
    /\ \E o \in Options : selected = {o} /\ SchemeOf(o) = currentScheme

\* C16: if the page is loaded with #admin_color_scheme naming the scheme of the
\* option marked selected, then after init and any clicks on colour options and on
\* the edit icon currentScheme equals #admin_color_scheme and the scheme of the one
\* selected option; a click on the selected option changes none of these nor the href
C16_SchemeAgreement ==
    /\ [](loadedConsistent => SchemeAgreement)
    /\ [][(lastSel'.ran /\ lastSel'.early) =>
            UNCHANGED <<currentScheme, adminColorScheme, selected, href>>]_vars

\* on a page loaded consistent, a click on the option selected by an earlier click
\* returned early and left the href that click had assigned
C16_Witness ==
    /\ loadedConsistent /\ SchemeAgreement
    /\ lastSel.ran /\ lastSel.early
    /\ selected = {lastSel.option}
    /\ href = lastSel.hrefBefore /\ href # InitialHref
    /\ currentScheme = PUBLISHPRESS_CUSTOM

\* C17 as stated: the preview style element exists only while the custom scheme
\* is current, under any interleaving of selections, colour changes, picker
\* callbacks and the 50 ms palette timer
C17_Original ==
    (currentScheme # PUBLISHPRESS_CUSTOM) => ~previewStyle

-----------------------------------------------------------------------------
(* lightenColor and darkenColor, admin-styles.js lines 777-802 *)

HexChars == <<"0","1","2","3","4","5","6","7","8","9","a","b","c","d","e","f">>
IsHexDigit(c) == LowerOf(c) \in Range(HexChars)
HexValue(c) == (CHOOSE i \in DOMAIN HexChars : HexChars[i] = LowerOf(c)) - 1

\* color.replace('#', ''): the first '#' is removed
RemoveHash(s) ==
    IF indexOf(s, <<"#">>) = -1 THEN s
    ELSE SubSeq(s, 1, indexOf(s, <<"#">>)) \o SubSeq(s, indexOf(s, <<"#">>) + 2, Len(s))

RECURSIVE HexNumber(_)
HexNumber(ds) ==
    IF ds = <<>> THEN 0
    ELSE 16 * HexNumber(SubSeq(ds, 1, Len(ds) - 1)) + HexValue(ds[Len(ds)])

\* the leading hex digits of s
HexPrefix(s) == UpTo(s, {s[i] : i \in {j \in 1..Len(s) : ~IsHexDigit(s[j])}})

\* parseInt(s, 16) as the bit operators see it: the leading hex digits are read,
\* and NaN (no hex digit at the start) becomes 0 under >> and &
parseInt16(s) == HexNumber(HexPrefix(s))

\* the percentages from -400 to 400 whose product with the double 2.55 falls just
\* below the half that the exact product 2.55 * percent is, so that Math.round
\* rounds it down
RoundedDownTies == {50, 90, 170, 190, 330, 350, 370, 390}

\* Math.round(2.55 * percent): to the nearest integer, halves upwards
Amt(percent) ==
    IF percent \in RoundedDownTies
    THEN ((255 * percent + 50) \div 100) - 1
    ELSE (255 * percent + 50) \div 100

\* the clamp without its lower arm
Clamp_NoLower(x) == IF x < 255 THEN x ELSE 255

\* lines 784-786: (X < 255 ? X < 1 ? 0 : X : 255)
Clamp(x) == IF x < 255 THEN (IF x < 1 THEN 0 ELSE x) ELSE 255

\* Number.prototype.toString(16)
RECURSIVE ToHex(_)
ToHex(n) ==
    IF n < 0 THEN <<"-">> \o ToHex(0 - n)
    ELSE IF n < 16 THEN <<HexChars[n + 1]>>
    ELSE Append(ToHex(n \div 16), HexChars[(n % 16) + 1])

\* lines 780-786 and 795-801, for the parsed number and the amount added
\* (num >> 16, num >> 8 & 0x00FF, num & 0x0000FF; the numbers stay below 2^31)
Shade(num, amt) ==
    <<"#">> \o Tail(ToHex(16777216
                          + Clamp((num \div 65536) + amt) * 65536
                          + Clamp(((num \div 256) % 256) + amt) * 256
                          + Clamp((num % 256) + amt)))

lightenColor(color, percent) == Shade(parseInt16(RemoveHash(color)), Amt(percent))

darkenColor(color, percent) == Shade(parseInt16(RemoveHash(color)), Amt(percent) * (0 - 1))

\* the percentages tried are the multiples of PercentStep up to MaxPercentSteps steps,
\* in both directions
PercentStep == 5
MaxPercentSteps == 21
Percents == {k * PercentStep : k \in (0 - MaxPercentSteps)..MaxPercentSteps}

ChannelPairs == { <<"0","0">>, <<"0","a">>, <<"7","F">>, <<"8","0">>, <<"f","f">> }

SixDigitColours == {<<"#">> \o r \o g \o b : r \in ChannelPairs, g \in ChannelPairs, b \in ChannelPairs}

OtherColours ==
    { <<"#","f","f","f">>, <<"#","a","B","c">>, <<"0","0","0">>,
      <<"3","3","6","6","9","9">>,
      <<"#","7","f","0","0","0","0","8","0">>, <<"#","0","0","f","f","f","f","8","0">> }

ColourInputs == SixDigitColours \cup OtherColours

InitColor ==
    /\ colIn \in ColourInputs
    /\ colPct \in Percents
    /\ colOut = <<>>
    /\ colPc \in {"lighten", "darken"}
    /\ urlApi = TRUE /\ baseProtocol = HTTPS_ /\ isSafeCssUrl = "none" /\ clock = StartClock
    /\ SzIdle /\ UiIdle /\ MigIdle

LightenCall ==
    /\ colPc = "lighten"
    /\ colOut' = lightenColor(colIn, colPct)
    /\ colPc' = "lightened"
    /\ UNCHANGED <<colIn, colPct, envVars, szVars, uiVars, migVars>>

DarkenCall ==
    /\ colPc = "darken"
    /\ colOut' = darkenColor(colIn, colPct)
    /\ colPc' = "darkened"
    /\ UNCHANGED <<colIn, colPct, envVars, szVars, uiVars, migVars>>

NextColor == LightenCall \/ DarkenCall

SpecColor == InitColor /\ [][NextColor]_vars

(* Claim about the colour helpers, checked under SpecColor *)

\* the value of the channel ch (1 red, 2 green, 3 blue) of "#rrggbb"
ChannelOf(s, ch) == 16 * HexValue(s[2 * ch]) + HexValue(s[2 * ch + 1])

IsSixDigitColour(s) ==
    Len(s) = 7 /\ s[1] = "#" /\ \A i \in 2..7 : IsHexDigit(s[i])

Max(a, b) == IF a >= b THEN a ELSE b
Min(a, b) == IF a <= b THEN a ELSE b

\* C8: the result is '#' and six hex digits, and for a six-digit input each channel
\* is the input channel plus (lighten) or minus (darken) round(2.55 * percent),
\* clamped to 0..255
C8_ShadeInRange ==
    (colPc \in {"lightened", "darkened"})
        => /\ IsSixDigitColour(colOut)
           /\ \A ch \in 1..3 : ChannelOf(colOut, ch) \in 0..255
           /\ IsSixDigitColour(colIn)
                => \A ch \in 1..3 :
                      ChannelOf(colOut, ch) =
                          Max(0, Min(255,
                              ChannelOf(colIn, ch)
                              + (IF colPc = "lightened" THEN Amt(colPct)
                                 ELSE 0 - Amt(colPct))))

\* a darkening that takes one channel below 0 and leaves another inside the range
C8_Witness ==
    /\ colPc = "darkened"
    /\ IsSixDigitColour(colIn)
    /\ ChannelOf(colIn, 1) - Amt(colPct) < 0
    /\ ChannelOf(colIn, 3) - Amt(colPct) \in 1..254
    /\ ChannelOf(colOut, 1) = 0
    /\ ChannelOf(colOut, 3) = ChannelOf(colIn, 3) - Amt(colPct)

-----------------------------------------------------------------------------
(* twae-migration.js *)

\* most requests in flight, requests sent and toasts shown
MaxPending == 2
MaxSent == 3
MaxToasts == 2

\* lines 22 and 27: typeof elementor !== "undefined" && elementor.saver
EditorReady == elementor = "ready"

\* checkUnsaved (lines 21-24), for the value elementor.saver.isSaved has
checkUnsaved(saved) == IF ~EditorReady THEN FALSE ELSE ~saved

\* both arms setting the attribute
DisabledAfterUpdate_Always(flag) == TRUE

\* both arms removing the attribute
DisabledAfterUpdate_Never(flag) == FALSE

\* updateMigrationButtonState (lines 45-55): the button's disabled attribute
DisabledAfterUpdate(flag) == flag

\* the 'disabled' property once the attribute is attr: a form control reflects
\* the attribute, another element keeps the property .prop() gave it (line 97)
DisabledProp(kind, attr, prop) == IF kind = "button" THEN attr ELSE prop

\* the state in which the script leaves a freshly loaded page (lines 19-42);
\* the button is enabled in the markup
PageLoaded(saved) ==
    /\ isSaved' = saved
    /\ hasUnsavedChanges' = checkUnsaved(saved)
    /\ btnDisabled' = IF EditorReady THEN DisabledAfterUpdate(checkUnsaved(saved)) ELSE FALSE
    /\ propDisabled' = DisabledProp(btnKind, btnDisabled', FALSE)
    /\ btnLabel' = "Run Migration"
    /\ resultHtml' = "empty"
    /\ pending' = 0
    /\ reloadTimer' = 0
    /\ slideTimer' = 0
    /\ noticeShown' = TRUE
    /\ gate' = "none"

InitMigration ==
    /\ elementor \in {"absent", "nosaver", "ready"}
    /\ isSaved \in BOOLEAN
    /\ hasUnsavedChanges = checkUnsaved(isSaved)
    /\ btnKind \in {"button", "other"}
    /\ btnDisabled = IF EditorReady THEN DisabledAfterUpdate(checkUnsaved(isSaved)) ELSE FALSE
    /\ propDisabled = DisabledProp(btnKind, btnDisabled, FALSE)
    /\ btnLabel = "Run Migration"
    /\ resultHtml = "empty"
    /\ pending = 0 /\ sent = 0 /\ reloadTimer = 0 /\ slideTimer = 0
    /\ noticeShown = TRUE /\ toasts = 0 /\ lastEvent = "none" /\ gate = "none"
    /\ urlApi = TRUE /\ baseProtocol = HTTPS_ /\ isSafeCssUrl = "none" /\ clock = StartClock
    /\ SzIdle /\ ColIdle /\ UiIdle

\* the editor's 'change' event (lines 33-36); saved is elementor.saver.isSaved
\* as the handler finds it
EditorChange ==
    /\ EditorReady
    /\ \E saved \in BOOLEAN :
        /\ isSaved' = saved
        /\ hasUnsavedChanges' = checkUnsaved(saved)
        /\ btnDisabled' = DisabledAfterUpdate(checkUnsaved(saved))
        /\ propDisabled' = DisabledProp(btnKind, btnDisabled', propDisabled)
        /\ gate' = IF checkUnsaved(saved) THEN "none" ELSE gate
    /\ lastEvent' = "change"
    /\ UNCHANGED <<elementor, btnKind, btnLabel, resultHtml, pending, sent, reloadTimer,
                   slideTimer, noticeShown, toasts, envVars, szVars, colVars, uiVars>>

\* the saver's 'after:save' event (lines 38-41); the editor may have been changed
\* again while the save was running
AfterSave ==
    /\ EditorReady
    /\ \E saved \in BOOLEAN : isSaved' = saved
    /\ hasUnsavedChanges' = FALSE
    /\ btnDisabled' = DisabledAfterUpdate(FALSE)
    /\ propDisabled' = DisabledProp(btnKind, btnDisabled', propDisabled)
    /\ gate' = "saved"
    /\ lastEvent' = "after:save"
    /\ UNCHANGED <<elementor, btnKind, btnLabel, resultHtml, pending, sent, reloadTimer,
                   slideTimer, noticeShown, toasts, envVars, szVars, colVars, uiVars>>

\* a click handler that disables the button when it sends the request
ClickRun_DisableOnSend ==
    /\ ~propDisabled
    /\ IF hasUnsavedChanges
       THEN /\ toasts < MaxToasts
            /\ toasts' = toasts + 1
            /\ UNCHANGED <<resultHtml, pending, sent, propDisabled>>
       ELSE /\ pending < MaxPending /\ sent < MaxSent
            /\ resultHtml' = "running"
            /\ pending' = pending + 1
            /\ sent' = sent + 1
            /\ propDisabled' = TRUE
            /\ UNCHANGED toasts
    /\ lastEvent' = "click"
    /\ UNCHANGED <<elementor, btnKind, isSaved, hasUnsavedChanges, btnDisabled,
                   btnLabel, reloadTimer, slideTimer, noticeShown, gate,
                   envVars, szVars, colVars, uiVars>>

\* a click handler without the unsaved-changes check
ClickRun_NoGate ==
    /\ ~propDisabled
    /\ pending < MaxPending /\ sent < MaxSent
    /\ resultHtml' = "running"
    /\ pending' = pending + 1
    /\ sent' = sent + 1
    /\ lastEvent' = "click"
    /\ UNCHANGED <<elementor, btnKind, isSaved, hasUnsavedChanges, btnDisabled,
                   propDisabled, btnLabel, reloadTimer, slideTimer, noticeShown, gate,
                   toasts, envVars, szVars, colVars, uiVars>>

\* a click on #twae-run-migration (lines 58-111); jQuery does not run a delegated
\* click handler for an element whose 'disabled' property is true
ClickRun ==
    /\ ~propDisabled
    /\ IF hasUnsavedChanges
       THEN /\ toasts < MaxToasts
            /\ toasts' = toasts + 1
            /\ UNCHANGED <<resultHtml, pending, sent>>
       ELSE /\ pending < MaxPending /\ sent < MaxSent
            /\ resultHtml' = "running"
            /\ pending' = pending + 1
            /\ sent' = sent + 1
            /\ UNCHANGED toasts
    /\ lastEvent' = "click"
    /\ UNCHANGED <<elementor, btnKind, isSaved, hasUnsavedChanges, btnDisabled,
                   propDisabled, btnLabel, reloadTimer, slideTimer, noticeShown, gate,
                   envVars, szVars, colVars, uiVars>>

\* the success callback (lines 81-105) of a request in flight; ok is response.success
AjaxSuccess ==
    /\ pending > 0
    /\ pending' = pending - 1
    /\ \E ok \in BOOLEAN :
        IF ok
        THEN /\ resultHtml' = "message"
             /\ slideTimer' = slideTimer + 1
             /\ reloadTimer' = reloadTimer + 1
             /\ propDisabled' = TRUE
             /\ btnDisabled' = DisabledProp(btnKind, TRUE, btnDisabled)
             /\ btnLabel' = "Migration Completed"
             /\ gate' = IF gate = "saved" THEN "completed" ELSE gate
             /\ lastEvent' = "success"
        ELSE /\ resultHtml' = "failure"
             /\ lastEvent' = "failure"
             /\ UNCHANGED <<slideTimer, reloadTimer, btnDisabled, propDisabled,
                            btnLabel, gate>>
    /\ UNCHANGED <<elementor, btnKind, isSaved, hasUnsavedChanges, sent, noticeShown, toasts,
                   envVars, szVars, colVars, uiVars>>

\* an error callback that sends the request again
AjaxError_Retry ==
    /\ pending > 0 /\ sent < MaxSent
    /\ sent' = sent + 1
    /\ resultHtml' = "ajaxError"
    /\ lastEvent' = "error"
    /\ UNCHANGED <<elementor, btnKind, isSaved, hasUnsavedChanges, btnDisabled,
                   propDisabled, btnLabel, pending,
                   reloadTimer, slideTimer, noticeShown, toasts, gate,
                   envVars, szVars, colVars, uiVars>>

\* the error callback (lines 106-108) of a request in flight
AjaxError ==
    /\ pending > 0
    /\ pending' = pending - 1
    /\ resultHtml' = "ajaxError"
    /\ lastEvent' = "error"
    /\ UNCHANGED <<elementor, btnKind, isSaved, hasUnsavedChanges, btnDisabled,
                   propDisabled, btnLabel, sent,
                   reloadTimer, slideTimer, noticeShown, toasts, gate,
                   envVars, szVars, colVars, uiVars>>

\* the 3000 ms timer of a successful migration (lines 90-94): with elementor
\* defined the page is reloaded and the script starts afresh
ReloadTimerFires ==
    /\ reloadTimer > 0
    /\ IF elementor # "absent"
       THEN \E saved \in BOOLEAN : PageLoaded(saved)
       ELSE /\ reloadTimer' = reloadTimer - 1
            /\ UNCHANGED <<isSaved, hasUnsavedChanges, btnDisabled, propDisabled,
                           btnLabel, resultHtml, pending, slideTimer, noticeShown, gate>>
    /\ lastEvent' = "reload"
    /\ UNCHANGED <<elementor, btnKind, sent, toasts, envVars, szVars, colVars, uiVars>>

\* the 6000 ms timer of a successful migration (lines 87-89)
SlideTimerFires ==
    /\ slideTimer > 0
    /\ slideTimer' = slideTimer - 1
    /\ noticeShown' = FALSE
    /\ lastEvent' = "slideUp"
    /\ UNCHANGED <<elementor, btnKind, isSaved, hasUnsavedChanges, btnDisabled,
                   propDisabled, btnLabel,
                   resultHtml, pending, sent, reloadTimer, toasts, gate,
                   envVars, szVars, colVars, uiVars>>

\* a click on the notice's dismiss controls (lines 3-16); without the
\* 'tineline-mig' data value the notice is faded out
DismissClick ==
    /\ \E migValSet \in BOOLEAN :
        noticeShown' = IF migValSet THEN noticeShown ELSE FALSE
    /\ lastEvent' = "dismiss"
    /\ UNCHANGED <<elementor, btnKind, isSaved, hasUnsavedChanges, btnDisabled,
                   propDisabled, btnLabel,
                   resultHtml, pending, sent, reloadTimer, slideTimer, toasts, gate,
                   envVars, szVars, colVars, uiVars>>

NextMigration ==
    \/ EditorChange
    \/ AfterSave
    \/ ClickRun
    \/ AjaxSuccess
    \/ AjaxError
    \/ ReloadTimerFires
    \/ SlideTimerFires
    \/ DismissClick

SpecMigration == InitMigration /\ [][NextMigration]_vars

(* Claims about the migration script, checked under SpecMigration *)

\* C9: with the editor present, hasUnsavedChanges implies that the button is disabled
C9_UnsavedImpliesDisabled ==
    (EditorReady /\ hasUnsavedChanges) => btnDisabled

\* a 'change' event found the editor unsaved after a request had been sent
C9_Witness ==
    /\ EditorReady /\ hasUnsavedChanges /\ btnDisabled
    /\ lastEvent = "change" /\ sent > 0

\* C10 as stated: after an 'after:save', hasUnsavedChanges is false and the button
\* is enabled until a later 'change' event finds the editor unsaved
C10_Original ==
    (gate \in {"saved", "completed"}) => (~hasUnsavedChanges /\ ~btnDisabled)

\* C10 amended: ... until a later 'change' event finds the editor unsaved or the
\* success callback of a migration request disables the button
C10_EnabledAfterSave ==
    (gate = "saved") => (~hasUnsavedChanges /\ ~btnDisabled)

\* an 'after:save' re-enabled the button that an unsaved editor had disabled, and
\* a later 'change' event that found the editor saved left it enabled
C10_Witness ==
    /\ gate = "saved" /\ lastEvent = "change"
    /\ ~hasUnsavedChanges /\ ~btnDisabled
    /\ toasts > 0

\* C11: a request that fails at the network level shows 'AJAX Error' in the result
\* area, leaves the button's disabled state and label unchanged, schedules no
\* reload or slide-up timer and re-sends nothing; only a click sends a request
C11_NetworkFailureOnlyShowsError ==
    [][/\ (lastEvent' = "error" /\ pending' # pending) =>
            /\ resultHtml' = "ajaxError"
            /\ UNCHANGED <<btnDisabled, propDisabled, btnLabel>>
            /\ UNCHANGED <<reloadTimer, slideTimer, sent>>
            /\ pending' = pending - 1
       /\ (sent' # sent) => lastEvent' = "click"]_vars

\* the second of two requests failed after the first had completed the migration:
\* the button keeps the state and label the success callback gave it
C11_Witness ==
    /\ lastEvent = "error" /\ resultHtml = "ajaxError"
    /\ propDisabled /\ btnLabel = "Migration Completed"
    /\ sent = 2 /\ pending = 0 /\ reloadTimer = 1 /\ slideTimer = 1

\* a step in which the click handler of #twae-run-migration ran
ClickStep ==
    /\ lastEvent' = "click"
    /\ <<toasts, sent, pending, resultHtml>>' # <<toasts, sent, pending, resultHtml>>

\* C12: a click handled while hasUnsavedChanges is true sends no request and leaves
\* the result area unchanged, showing only the toast; so no request is ever sent
\* in a state where hasUnsavedChanges is true
C12_NoRequestWhileUnsaved ==
    [][/\ (ClickStep /\ hasUnsavedChanges) =>
            /\ UNCHANGED <<sent, pending, resultHtml>>
            /\ toasts' = toasts + 1
       /\ (sent' # sent) => ~hasUnsavedChanges]_vars

\* a click in the unsaved state showed the toast and left the 'AJAX Error' of an
\* earlier request in the result area
C12_Witness ==
    /\ hasUnsavedChanges /\ lastEvent = "click" /\ toasts = 1
    /\ resultHtml = "ajaxError" /\ sent = 1 /\ pending = 0

\* C14 as stated: once a request has returned success, the button, relabelled
\* 'Migration Completed', stays disabled whatever 'change' or 'after:save' events
\* follow, so that no click on it is handled
C14_Original ==
    (btnLabel = "Migration Completed") => propDisabled

\* C15: every click handled while hasUnsavedChanges is false sends exactly one
\* request, also while an earlier request is pending: the click leaves the button
\* enabled, so several requests can be outstanding at once
C15_EveryClickSends ==
    [][(ClickStep /\ ~hasUnsavedChanges) =>
            /\ sent' = sent + 1
            /\ pending' = pending + 1
            /\ resultHtml' = "running"
            /\ UNCHANGED <<btnDisabled, propDisabled, btnLabel>>]_vars

\* a second click was handled while the first request was still pending
C15_Witness ==
    /\ lastEvent = "click" /\ ~hasUnsavedChanges
    /\ pending = 2 /\ sent = 2 /\ resultHtml = "running"
    /\ ~propDisabled /\ ~btnDisabled

=============================================================================
